---- MODULE Spec2Model ----
(***************************************************************************)
(* Terrain height map of pokemon-openworld: the synchronous mesh build     *)
(* (HeightMap::from_bytes), the background build (HeightMap::make_data,    *)
(* its worker thread and the mpsc channel), the hand-off                   *)
(* (HeightMap::create_models), the height query (HeightMap::get_height_at) *)
(* and the frames of Game::render that draw or poll the terrain.           *)
(*                                                                         *)
(* Arithmetic.  The source computes in f32.  The model computes exactly,   *)
(* in integers, with every length in units of 1/255 world unit: a height   *)
(* pixel/255*height_multiplier is the integer pixel*height_multiplier and  *)
(* a horizontal coordinate px*res*size is 255*px*res*size.  A normalised   *)
(* vector is represented by its direction (the integer vector divided by   *)
(* the gcd of its components); every test the source makes on a            *)
(* normalised vector is made on the direction with squared lengths.        *)
(***************************************************************************)
EXTENDS Integers, Sequences, FiniteSets, TLC

\* ---------------------------------------------------------------- bounds
MaxW == 4          \* image width  in 1..MaxW
MaxH == 4          \* image height in 1..MaxH
MaxRes == 2        \* resolution stride res in 1..MaxRes
MaxChunks == 2     \* chunk count in 1..MaxChunks
MaxFlat == 4       \* flat images of 1..MaxFlat x 1..MaxFlat pixels
QueryDen == 2      \* get_height_at arguments are multiples of 1/QueryDen
MaxTouches == 2    \* touch ids 1..MaxTouches
MaxYaw == 1        \* the yaw stays within -MaxYaw..MaxYaw (1/500 rad)
MaxEye == 4        \* the eye stays within MaxEye ticks of travel on every axis

\* ------------------------------------------------------- Option<T> values
None == <<>>
Some(v) == <<v>>
IsSome(o) == o # <<>>
Unwrap(o) == o[1]

\* The sequence f as a tuple of its elements (a Vec holds its elements, not
\* the expression that gives them).
Vec(f) == <<>> \o f

Max(a, b) == IF a >= b THEN a ELSE b
Min(a, b) == IF a <= b THEN a ELSE b
Abs(a) == IF a < 0 THEN -a ELSE a

RECURSIVE Gcd(_, _)
Gcd(a, b) == IF b = 0 THEN a ELSE Gcd(b, a % b)

\* ------------------------------------------------------------ the image
\* A decoded grayscale image: image.width(), image.height() and the luma
\* byte of every pixel (get_pixel(x, y).0[0]).
get_pixel(image, x, y) == image.pix[<<x, y>>]

\* ------------------------------------------------------ program constants
\* Colors, each component a fraction <<numerator, denominator>>.
grass_color == << <<17, 255>>, <<124, 255>>, <<19, 255>> >>
snow_color == << <<9, 10>>, <<9, 10>>, <<9, 10>> >>
rock_color == << <<3, 10>>, <<3, 10>>, <<3, 10>> >>
dirt_color == << <<165, 255>>, <<42, 255>>, <<42, 255>> >>

\* Thresholds as fractions of height_multiplier, in units of 1/2550:
\* 0.7 = 1785/2550 and 0.1439215686 = 366.99999993/2550.  A height is
\* pixel*10/2550 of height_multiplier, a multiple of 10/2550, so comparing
\* it with 367/2550 decides as comparing it with 366.99999993/2550 does.
SnowThreshold == 1785
RockThreshold == 367
Scale == 255

\* ================================================= HeightMap::from_bytes
\* v_height > height_multiplier*0.7
IsSnowHeight(v_height, height_multiplier) ==
    10 * v_height > SnowThreshold * height_multiplier

\* v_height <= 0.1439215686*height_multiplier
IsRockHeight(v_height, height_multiplier) ==
    10 * v_height <= RockThreshold * height_multiplier

\* The color a vertex gets when it is pushed (lines 90-96): grass, then snow
\* if high, then rock if low, the later assignment winning.
base_color(v_height, height_multiplier) ==
    LET c0 == grass_color
        c1 == IF IsSnowHeight(v_height, height_multiplier) THEN snow_color ELSE c0
    IN  IF IsRockHeight(v_height, height_multiplier) THEN rock_color ELSE c1

\* The vertex pushed for pixel (px, py) of the sampled grid (lines 89-97).
new_vertex(image, res, size, height_multiplier, px, py) ==
    LET v_height == get_pixel(image, px * res, py * res) * height_multiplier
    IN  [position |-> <<Scale * (px * res) * size, v_height, Scale * (py * res) * size>>,
         color |-> base_color(v_height, height_multiplier),
         normal |-> <<0, 1, 0>>]

\* Variant of extra: no overlap column or row is emitted.
extra_none(c, chunks) == 0

\* extra_x / extra_y, lines 75-84.
extra(c, chunks) == IF c = chunks - 1 THEN 0 ELSE 1

\* Number of vertex columns / rows of chunk coordinate c along an axis of
\* `length` sampled pixels (width/chunks+extra_x, height/chunks+extra_y).
chunk_span(length, chunks, c) == (length \div chunks) + extra(c, chunks)

\* px = x + (width/chunks)*cx
chunk_pixel(length, chunks, c, x) == x + (length \div chunks) * c

\* The vertices of chunk (cx, cy) in push order: x outer, y inner.
chunk_vertices(image, res, size, chunks, height_multiplier, cx, cy) ==
    LET width == image.width \div res
        height == image.height \div res
        cols == chunk_span(width, chunks, cx)
        rows == chunk_span(height, chunks, cy)
    IN  Vec([k \in 1..(cols * rows) |->
            LET x == (k - 1) \div rows
                y == (k - 1) % rows
            IN  new_vertex(image, res, size, height_multiplier,
                           chunk_pixel(width, chunks, cx, x),
                           chunk_pixel(height, chunks, cy, y))])

\* Variant of chunk_indices: the second triangle of a cell is wound the other
\* way round (i, i+rows, i+rows+1).
chunk_indices_flipped(cols, rows) ==
    LET ncells == IF cols >= 1 /\ rows >= 1 THEN (cols - 1) * (rows - 1) ELSE 0
    IN  Vec([k \in 1..(6 * ncells) |->
            LET c == (k - 1) \div 6
                j == (k - 1) % 6
                x == c \div (rows - 1)
                y == c % (rows - 1)
                i == x * rows + y
            IN  CASE j = 0 -> i
                  [] j = 1 -> i + 1
                  [] j = 2 -> i + rows + 1
                  [] j = 3 -> i
                  [] j = 4 -> i + rows
                  [] j = 5 -> i + rows + 1])

\* The indices of a chunk of cols x rows vertices in append order: six per
\* cell (x, y) with x < cols-1 and y < rows-1, i = x*rows + y.
chunk_indices(cols, rows) ==
    LET ncells == IF cols >= 1 /\ rows >= 1 THEN (cols - 1) * (rows - 1) ELSE 0
    IN  Vec([k \in 1..(6 * ncells) |->
            LET c == (k - 1) \div 6
                j == (k - 1) % 6
                x == c \div (rows - 1)
                y == c % (rows - 1)
                i == x * rows + y
            IN  CASE j = 0 -> i
                  [] j = 1 -> i + 1
                  [] j = 2 -> i + rows + 1
                  [] j = 3 -> i
                  [] j = 4 -> i + rows + 1
                  [] j = 5 -> i + rows])

\* cross(u, v), lines 113-116.
cross(u, v) ==
    <<u[2] * v[3] - u[3] * v[2],
      u[3] * v[1] - u[1] * v[3],
      u[1] * v[2] - u[2] * v[1]>>

sub(a, b) == <<a[1] - b[1], a[2] - b[2], a[3] - b[3]>>

\* normal.normalize(): the direction of n.
normalize(n) ==
    LET g == Gcd(Gcd(Abs(n[1]), Abs(n[2])), Abs(n[3]))
    IN  IF g = 0 THEN n ELSE <<n[1] \div g, n[2] \div g, n[3] \div g>>

\* Variant of normal_y_below_half: the comparison is turned round.
normal_y_above_half(n) ==
    /\ n[2] > 0
    /\ 4 * n[2] * n[2] > n[1] * n[1] + n[2] * n[2] + n[3] * n[3]

\* normal.y < 0.5 for the unit vector of direction n.
normal_y_below_half(n) ==
    \/ n[2] < 0
    \/ 4 * n[2] * n[2] < n[1] * n[1] + n[2] * n[2] + n[3] * n[3]

\* Variant of recolor: the snow test is missing.
recolor_any(color) == dirt_color

\* if vertices[v].color != [0.9, 0.9, 0.9] { vertices[v].color = dirt_color; }
recolor(color) == IF color # snow_color THEN dirt_color ELSE color

\* The normal of triangle i of the index buffer, lines 106-117.
triangle_normal(vertices, indices, i) ==
    LET v1 == indices[i * 3 + 1] + 1
        v2 == indices[i * 3 + 2] + 1
        v3 == indices[i * 3 + 3] + 1
        u == sub(vertices[v2].position, vertices[v1].position)
        v == sub(vertices[v3].position, vertices[v1].position)
    IN  normalize(cross(u, v))

\* Variant of normal_step: only the first corner of a steep triangle is
\* recolored.
normal_step_first_corner(vertices, indices, i) ==
    LET v1 == indices[i * 3 + 1] + 1
        v2 == indices[i * 3 + 2] + 1
        v3 == indices[i * 3 + 3] + 1
        normal == triangle_normal(vertices, indices, i)
        steep == normal_y_below_half(normal)
    IN  Vec([k \in 1..Len(vertices) |->
            IF k \in {v1, v2, v3}
            THEN [position |-> vertices[k].position,
                  color |-> IF steep /\ k = v1 THEN recolor(vertices[k].color)
                            ELSE vertices[k].color,
                  normal |-> normal]
            ELSE vertices[k]])

\* One iteration of the gen_normals loop, lines 106-126.
normal_step(vertices, indices, i) ==
    LET v1 == indices[i * 3 + 1] + 1
        v2 == indices[i * 3 + 2] + 1
        v3 == indices[i * 3 + 3] + 1
        normal == triangle_normal(vertices, indices, i)
        tri == {v1, v2, v3}
        steep == normal_y_below_half(normal)
    IN  Vec([k \in 1..Len(vertices) |->
            IF k \in tri
            THEN [position |-> vertices[k].position,
                  color |-> IF steep THEN recolor(vertices[k].color)
                            ELSE vertices[k].color,
                  normal |-> normal]
            ELSE vertices[k]])

\* for i in 0..indices.len()/3, lines 105-127: iterations i..n-1.
RECURSIVE gen_normals_loop(_, _, _)
gen_normals_loop(vertices, indices, i) ==
    IF i >= Len(indices) \div 3
    THEN vertices
    ELSE gen_normals_loop(normal_step(vertices, indices, i), indices, i + 1)

\* Model::new_instances(vertices, &indices, vec![Instance::default()], device)
new_instances(vertices, indices) ==
    [vertices |-> vertices, indices |-> indices, instances |-> 1]

\* The body of the cx/cy loops of from_bytes, lines 73-132: (vertices, indices).
build_chunk(image, res, size, chunks, height_multiplier, gen_normals, cx, cy) ==
    LET width == image.width \div res
        height == image.height \div res
        vertices == chunk_vertices(image, res, size, chunks, height_multiplier, cx, cy)
        indices == chunk_indices(chunk_span(width, chunks, cx),
                                 chunk_span(height, chunks, cy))
    IN  <<IF gen_normals THEN gen_normals_loop(vertices, indices, 0) ELSE vertices,
          indices>>

\* The chunk coordinates in loop order: cx outer, cy inner.
chunk_coord(chunks, k) == <<(k - 1) \div chunks, (k - 1) % chunks>>

\* HeightMap::from_bytes after a successful decode: the returned HeightMap.
from_bytes(a) ==
    [image |-> Some(a.image),
     models |-> Some([k \in 1..(a.chunks * a.chunks) |->
                  LET c == chunk_coord(a.chunks, k)
                      d == build_chunk(a.image, a.res, a.size, a.chunks,
                                       a.height_multiplier, a.gen_normals, c[1], c[2])
                  IN  <<c, new_instances(d[1], d[2])>>]),
     model_data_recv |-> None,
     width |-> a.image.width,
     height |-> a.image.height,
     size |-> a.size,
     height_multiplier |-> a.height_multiplier]

\* ================================================== HeightMap::make_data
\* The worker thread's copy of the build, lines 159-215 of make_data.

\* The vertex the worker pushes for pixel (px, py), lines 175-183.
worker_vertex(image, res, size, height_multiplier, px, py) ==
    LET v_height == get_pixel(image, px * res, py * res) * height_multiplier
        c0 == grass_color
        c1 == IF 10 * v_height > SnowThreshold * height_multiplier
              THEN snow_color ELSE c0
        color == IF 10 * v_height <= RockThreshold * height_multiplier
                 THEN rock_color ELSE c1
    IN  [position |-> <<Scale * (px * res) * size, v_height, Scale * (py * res) * size>>,
         color |-> color,
         normal |-> <<0, 1, 0>>]

\* Variant of worker_extra: the worker emits no overlap column or row.
worker_extra_none(c, chunks) == 0

\* extra_x / extra_y of the worker, lines 161-170.
worker_extra(c, chunks) == IF c = chunks - 1 THEN 0 ELSE 1

\* The worker's vertex loop, lines 171-183 (x outer, y inner).
worker_vertices(image, res, size, chunks, height_multiplier, cx, cy) ==
    LET width == image.width \div res
        height == image.height \div res
        cols == (width \div chunks) + worker_extra(cx, chunks)
        rows == (height \div chunks) + worker_extra(cy, chunks)
    IN  Vec([k \in 1..(cols * rows) |->
            LET x == (k - 1) \div rows
                y == (k - 1) % rows
                px == x + (width \div chunks) * cx
                py == y + (height \div chunks) * cy
            IN  worker_vertex(image, res, size, height_multiplier, px, py)])

\* The worker's index appends, lines 184-187.
worker_indices(image, res, chunks, cx, cy) ==
    LET width == image.width \div res
        height == image.height \div res
        cols == (width \div chunks) + worker_extra(cx, chunks)
        rows == (height \div chunks) + worker_extra(cy, chunks)
        ncells == IF cols >= 1 /\ rows >= 1 THEN (cols - 1) * (rows - 1) ELSE 0
    IN  Vec([k \in 1..(6 * ncells) |->
            LET c == (k - 1) \div 6
                j == (k - 1) % 6
                i == (c \div (rows - 1)) * rows + (c % (rows - 1))
            IN  CASE j = 0 -> i
                  [] j = 1 -> i + 1
                  [] j = 2 -> i + rows + 1
                  [] j = 3 -> i
                  [] j = 4 -> i + rows + 1
                  [] j = 5 -> i + rows])

\* One iteration of the worker's gen_normals loop, lines 192-212.
worker_normal_step(vertices, indices, i) ==
    LET v1 == indices[i * 3 + 1] + 1
        v2 == indices[i * 3 + 2] + 1
        v3 == indices[i * 3 + 3] + 1
        u == sub(vertices[v2].position, vertices[v1].position)
        v == sub(vertices[v3].position, vertices[v1].position)
        normal == normalize(cross(u, v))
        steep == normal_y_below_half(normal)
    IN  Vec([k \in 1..Len(vertices) |->
            IF k \in {v1, v2, v3}
            THEN [position |-> vertices[k].position,
                  color |-> IF steep /\ vertices[k].color # snow_color
                            THEN dirt_color ELSE vertices[k].color,
                  normal |-> normal]
            ELSE vertices[k]])

\* for i in 0..indices.len()/3 of the worker, lines 191-213.
RECURSIVE worker_normals_loop(_, _, _)
worker_normals_loop(vertices, indices, i) ==
    IF i >= Len(indices) \div 3
    THEN vertices
    ELSE worker_normals_loop(worker_normal_step(vertices, indices, i), indices, i + 1)

\* The body of the worker's cx/cy loops, lines 159-215: the entry pushed on
\* model_data, ((cx, cy), (vertices, indices)).
worker_build_chunk(a, cx, cy) ==
    LET vertices == worker_vertices(a.image, a.res, a.size, a.chunks,
                                    a.height_multiplier, cx, cy)
        indices == worker_indices(a.image, a.res, a.chunks, cx, cy)
    IN  <<<<cx, cy>>,
          <<IF a.gen_normals THEN worker_normals_loop(vertices, indices, 0) ELSE vertices,
            indices>>>>

\* HeightMap::make_data after a successful decode: the HeightMap returned to
\* the caller, lines 220-228.
make_data(a) ==
    [image |-> None,
     models |-> None,
     model_data_recv |-> Some("recv"),
     width |-> a.image.width,
     height |-> a.image.height,
     size |-> a.size,
     height_multiplier |-> a.height_multiplier]

\* ============================================= HeightMap::create_models
\* recv.recv().ok() on a channel whose queue is ch: the head of the queue, or
\* None when the queue is empty and the sender is gone.
recv_ok(ch) == IF ch # <<>> THEN Some(Head(ch)) ELSE None

\* recv.recv() parks the calling thread while the queue is empty and the
\* sender is alive.
would_block(hm, ch, alive) == IsSome(hm.model_data_recv) /\ ch = <<>> /\ alive

\* The models built from a received model_data vector, lines 338-340.
to_models(data) ==
    [k \in 1..Len(data) |->
        <<data[k][1], new_instances(data[k][2][1], data[k][2][2])>>]

\* Variant of install: the image is not installed with the models.
install_models_only(hm, model_data) ==
    IF IsSome(model_data)
    THEN [hm EXCEPT !.models = Some(to_models(Unwrap(model_data)[1]))]
    ELSE hm

\* Variant of install: the fields are assigned whatever the receive returned.
install_or_clear(hm, model_data) ==
    IF IsSome(model_data)
    THEN [hm EXCEPT !.image = Some(Unwrap(model_data)[2]),
                    !.models = Some(to_models(Unwrap(model_data)[1]))]
    ELSE [hm EXCEPT !.image = None, !.models = None]

\* Lines 336-341: install what the receive returned, if anything.
install(hm, model_data) ==
    IF IsSome(model_data)
    THEN [hm EXCEPT !.image = Some(Unwrap(model_data)[2]),
                    !.models = Some(to_models(Unwrap(model_data)[1]))]
    ELSE hm

\* Variant of create_models: the message is received and dropped.
create_models_dropped(hm, ch) ==
    IF IsSome(hm.model_data_recv)
    THEN [hm |-> hm, chan |-> IF ch # <<>> THEN Tail(ch) ELSE ch]
    ELSE [hm |-> hm, chan |-> ch]

\* create_models once its receive can return: the terrain and the channel queue
\* it leaves.
create_models(hm, ch) ==
    IF IsSome(hm.model_data_recv)
    THEN [hm |-> install(hm, recv_ok(ch)),
          chan |-> IF ch # <<>> THEN Tail(ch) ELSE ch]
    ELSE [hm |-> hm, chan |-> ch]

\* ================================================== HeightMap::render
\* The chunk coordinates HeightMap::render draws, lines 346-352.
render(hm) ==
    IF IsSome(hm.models)
    THEN [k \in 1..Len(Unwrap(hm.models)) |-> Unwrap(hm.models)[k][1]]
    ELSE <<>>

\* ============================================ HeightMap::get_height_at
\* x.clamp(min, max)
clamp(x, lo, hi) == Max(lo, Min(x, hi))

\* Lines 320-326 for the cell (x, y) and the weights x_fract/d, y_fract/d:
\* the result as the fraction <<numerator, d*d>>, in units of 1/255.
interpolate(image, height_multiplier, x, y, x_fract, y_fract, d) ==
    LET height0 == get_pixel(image, x, y) * height_multiplier
        height1 == get_pixel(image, x, y + 1) * height_multiplier
        height2 == get_pixel(image, x + 1, y) * height_multiplier
        height3 == get_pixel(image, x + 1, y + 1) * height_multiplier
        heightx1 == height0 * d + (height1 - height0) * x_fract
        heightx2 == height2 * d + (height3 - height2) * x_fract
    IN  <<heightx1 * d + (heightx2 - heightx1) * y_fract, d * d>>

\* get_height_at(x/QueryDen, y/QueryDen), lines 312-330.  x/size is the
\* fraction x/d with d = QueryDen*size.
get_height_at(hm, x, y) ==
    IF IsSome(hm.image)
    THEN LET d == QueryDen * hm.size
             xc == clamp(x, 0, (hm.width - 2) * d)
             yc == clamp(y, 0, (hm.height - 2) * d)
         IN  interpolate(Unwrap(hm.image), hm.height_multiplier,
                         xc \div d, yc \div d, xc % d, yc % d, d)
    ELSE <<0, 1>>

\* ====================================================== Game: the camera
\* Angles are in units of 1/500 rad, the angle of one pixel of pointer travel
\* (delta / 500.0).  The pitch limit PI*0.499 is 783.84.. of these units, which
\* is no whole number: a pitch is the pair <<a, k>> standing for
\* a * (PI*0.499) + k/500 rad, with a in {-1, 0, 1}.
SkyLimit == 783840   \* PI*0.499 in 1/500000 rad, rounded down

\* a*(PI*0.499) + k/500 > 0, for whole k and a in -2..2 (no multiple of 1000
\* lies between a*SkyLimit and the exact a*PI*0.499*500000).
sky_positive(a, k) == 1000 * k + a * SkyLimit > 0

\* v1 > v2 for two pitches.
sky_greater(v1, v2) == sky_positive(v1[1] - v2[1], v1[2] - v2[2])

\* Variant of clamp_sky: no clamp is applied.
clamp_sky_missing(sky) == sky

\* self.camera.sky.clamp(PI*-0.499, PI*0.499), line 266.
clamp_sky(sky) ==
    IF sky_greater(<<-1, 0>>, sky) THEN <<-1, 0>>
    ELSE IF sky_greater(sky, <<1, 0>>) THEN <<1, 0>>
    ELSE sky

\* Game::mouse_motion(delta), lines 263-267.
mouse_motion(game, delta) ==
    LET ground == game.camera.ground + delta[1]
        sky == <<game.camera.sky[1], game.camera.sky[2] - delta[2]>>
    IN  [game EXCEPT !.camera.ground = ground,
                     !.camera.sky = clamp_sky(sky)]

\* HashMap::insert / HashMap::remove on touch_positions.
map_insert(m, k, v) == [j \in (DOMAIN m) \cup {k} |-> IF j = k THEN v ELSE m[j]]
map_remove(m, k) == [j \in (DOMAIN m) \ {k} |-> m[j]]

\* TouchPhase::Started, lines 278-284.
touch_started(game, id, location) ==
    IF 2 * location[1] <= game.screen_size[1]
    THEN [game EXCEPT !.touch_positions = map_insert(@, id, location)]
    ELSE [game EXCEPT !.moving_bc_finger = Some(id)]

\* TouchPhase::Moved, lines 271-277.
touch_moved(game, id, location) ==
    IF id \in DOMAIN game.touch_positions
    THEN LET last_position == game.touch_positions[id]
             delta == <<location[1] - last_position[1], location[2] - last_position[2]>>
             g == mouse_motion(game, delta)
         IN  [g EXCEPT !.touch_positions = map_insert(@, id, location)]
    ELSE game

\* TouchPhase::Ended | TouchPhase::Cancelled, lines 285-290.
touch_ended(game, id) ==
    LET g == [game EXCEPT !.touch_positions = map_remove(@, id)]
    IN  IF g.moving_bc_finger = Some(id)
        THEN [g EXCEPT !.moving_bc_finger = None]
        ELSE g

\* Game::touch(touch), lines 269-292.
touch(game, t) ==
    CASE t.phase = "Moved" -> touch_moved(game, t.id, t.location)
      [] t.phase = "Started" -> touch_started(game, t.id, t.location)
      [] t.phase \in {"Ended", "Cancelled"} -> touch_ended(game, t.id)

\* ------------------------------------------------------------ keys_down
\* self.keys_down.contains(&code)
contains(keys_down, code) == \E i \in 1..Len(keys_down) : keys_down[i] = code

\* self.keys_down.iter().position(|x| x == &code): the first index, from 1.
position(keys_down, code) ==
    IF contains(keys_down, code)
    THEN Some(CHOOSE i \in 1..Len(keys_down) :
                 /\ keys_down[i] = code
                 /\ \A j \in 1..(i - 1) : keys_down[j] # code)
    ELSE None

\* Vec::remove(i)
remove(keys_down, i) == [j \in 1..(Len(keys_down) - 1) |->
                            IF j < i THEN keys_down[j] ELSE keys_down[j + 1]]

\* Variant of key_pressed: the key is pushed whether or not it is held.
key_pressed_always(keys_down, code) == Append(keys_down, code)

\* The press branch of input_event, lines 252-254.
key_pressed(keys_down, code) ==
    IF ~contains(keys_down, code) THEN Append(keys_down, code) ELSE keys_down

\* The release branch of input_event, lines 256-258.
key_released(keys_down, code) ==
    IF IsSome(position(keys_down, code))
    THEN Vec(remove(keys_down, Unwrap(position(keys_down, code))))
    ELSE keys_down

\* Game::input_event(input_event), lines 249-261.  physical_key is
\* <<"Code", code>> or <<"Unidentified">>.
input_event(game, ev) ==
    IF ev.physical_key[1] = "Code"
    THEN LET code == ev.physical_key[2]
         IN  IF ev.pressed
             THEN [game EXCEPT !.keys_down = key_pressed(@, code)]
             ELSE [game EXCEPT !.keys_down = key_released(@, code)]
    ELSE game

\* The quotient n/d of two f32 values that are whole numbers, as a fraction in
\* lowest terms with positive denominator; d = 0 is kept as <<n, 0>>.
ratio(n, d) ==
    IF d = 0 THEN <<n, 0>>
    ELSE LET g == Gcd(Abs(n), Abs(d))
             sgn == IF d < 0 THEN -1 ELSE 1
         IN  <<sgn * (n \div g), Abs(d) \div g>>

\* WindowHandler::resize(new_size), lines 189-192.
resize(game, new_size) ==
    [game EXCEPT !.camera.aspect = ratio(new_size[1], new_size[2]),
                 !.screen_size = new_size]

\* ------------------------------------------------------------- movement
\* Camera::get_walking_vec(): the unit vector in the horizontal plane given by
\* the yaw alone.  A vector is held by its coefficients on the walking and
\* right vectors of one yaw and on unit_y.
get_walking_vec(camera) == [yaw |-> camera.ground, walk |-> 1, right |-> 0, up |-> 0]

\* Camera::get_right_vec(): horizontal, perpendicular to the walking vector.
get_right_vec(camera) == [yaw |-> camera.ground, walk |-> 0, right |-> 1, up |-> 0]

\* Vector3::unit_y()
unit_y == [yaw |-> 0, walk |-> 0, right |-> 0, up |-> 1]

\* eye += v * s.  The eye is the sum of its horizontal parts, one for each yaw
\* walked at, and its height.
eye_add(eye, v, s) ==
    LET cur == IF v.yaw \in DOMAIN eye.along THEN eye.along[v.yaw] ELSE <<0, 0>>
        new == <<cur[1] + s * v.walk, cur[2] + s * v.right>>
    IN  [along |-> IF new = <<0, 0>> THEN map_remove(eye.along, v.yaw)
                   ELSE map_insert(eye.along, v.yaw, new),
         up |-> eye.up + s * v.up]

\* Variant of movement: the tests form an else-if chain, one key moves a frame.
movement_one_key(game, delta) ==
    LET speed == 2 * delta
        cam == game.camera
        eye == IF contains(game.keys_down, "KeyW") \/ IsSome(game.moving_bc_finger)
               THEN eye_add(cam.eye, get_walking_vec(cam), speed)
               ELSE IF contains(game.keys_down, "KeyS")
               THEN eye_add(cam.eye, get_walking_vec(cam), 0 - speed)
               ELSE IF contains(game.keys_down, "KeyA")
               THEN eye_add(cam.eye, get_right_vec(cam), 0 - speed)
               ELSE IF contains(game.keys_down, "KeyD")
               THEN eye_add(cam.eye, get_right_vec(cam), speed)
               ELSE IF contains(game.keys_down, "Space")
               THEN eye_add(cam.eye, unit_y, speed)
               ELSE IF contains(game.keys_down, "ShiftLeft")
               THEN eye_add(cam.eye, unit_y, 0 - speed)
               ELSE cam.eye
    IN  [game EXCEPT !.camera.eye = eye]

\* The movement step of Game::render, lines 195-216; delta in frame ticks.
movement(game, delta) ==
    LET speed == 2 * delta
        cam == game.camera
        e1 == IF contains(game.keys_down, "KeyW") \/ IsSome(game.moving_bc_finger)
              THEN eye_add(cam.eye, get_walking_vec(cam), speed) ELSE cam.eye
        e2 == IF contains(game.keys_down, "KeyS")
              THEN eye_add(e1, get_walking_vec(cam), 0 - speed) ELSE e1
        e3 == IF contains(game.keys_down, "KeyA")
              THEN eye_add(e2, get_right_vec(cam), 0 - speed) ELSE e2
        e4 == IF contains(game.keys_down, "KeyD")
              THEN eye_add(e3, get_right_vec(cam), speed) ELSE e3
        e5 == IF contains(game.keys_down, "Space")
              THEN eye_add(e4, unit_y, speed) ELSE e4
        e6 == IF contains(game.keys_down, "ShiftLeft")
              THEN eye_add(e5, unit_y, 0 - speed) ELSE e5
    IN  [game EXCEPT !.camera.eye = e6]

\* ----------------------------------------------------------- sun camera
\* Variant of sun_camera: the pitch is taken over from the player camera.
sun_camera_player_pitch(game, hm) ==
    LET sun_pos == <<101 * hm.width, 90000, 101 * hm.width>>
        look_pos == sub(sun_pos, <<50 * hm.width, 0, 50 * hm.height>>)
        x == look_pos[1]
        z == look_pos[3]
    IN  [eye |-> sun_pos,
         aspect |-> ratio(game.screen_size[1], game.screen_size[2]),
         fovy |-> 100, znear |-> 1, zfar |-> 1000,
         ground |-> [atan |-> ratio(z, x),
                     half_turns |-> ratio(Abs(x), x)[1] - 1 + 1],
         sky |-> [neg_atan |-> game.camera.sky]]

\* Game::sun_camera(), lines 172-185, lengths in 1/100 world unit.
\* ground is atan(z/x) + PI*h with h = (|x|/x - 1) + 1 half turns; sky is
\* -atan(y / sqrt(d2)), held as <<y, d2>>.
sun_camera(game, hm) ==
    LET sun_pos == <<101 * hm.width, 90000, 101 * hm.width>>
        look_pos == sub(sun_pos, <<50 * hm.width, 0, 50 * hm.height>>)
        x == look_pos[1]
        z == look_pos[3]
        dist2 == x * x + z * z
    IN  [eye |-> sun_pos,
         aspect |-> ratio(game.screen_size[1], game.screen_size[2]),
         fovy |-> 100, znear |-> 1, zfar |-> 1000,
         ground |-> [atan |-> ratio(z, x),
                     half_turns |-> ratio(Abs(x), x)[1] - 1 + 1],
         sky |-> [neg_atan |-> <<look_pos[2], dist2>>]]

\* ---------------------------------------------------------- frame passes
\* DepthTexture::create_depth_texture: a new depth target, nothing rendered
\* into it, created in the running frame.
create_depth_texture == [pass |-> "none", terrain |-> FALSE, frame |-> "this"]

\* A frame begins: every depth target that exists is of an earlier frame.
earlier_frame(game) == [game EXCEPT !.shadow_texture.frame = "earlier"]

\* render_shadows up to the terrain test, lines 134-151: the pass on the new
\* target is begun (cleared to depth 1.0) and the sun camera is computed.
render_shadows_begin(game, hm) ==
    [game EXCEPT !.sun_camera_binding = sun_camera(game, hm)]

\* The shadow pass draws the terrain, lines 153-163.
render_shadows_draw(game) ==
    [game EXCEPT !.camera_pos_binding = <<"sun", game.sun_camera_binding.eye>>,
                 !.screen_info_binding = game.screen_size]

\* Variant of render_shadows_end: the slot keeps its old target.
render_shadows_end_keep(game, terrain) == game

\* The end of render_shadows, lines 168-169: the pass is submitted and its
\* target is stored in the shadow-texture slot.
render_shadows_end(game, terrain) ==
    [game EXCEPT !.shadow_texture =
        [create_depth_texture EXCEPT !.pass = "shadow", !.terrain = terrain]]

\* The main pass draws terrain and water with the player camera, lines 220-235.
main_pass_draw(game) ==
    [game EXCEPT !.camera_binding = game.camera,
                 !.camera_pos_binding = <<"player", game.camera.eye>>,
                 !.screen_info_binding = game.screen_size]

\* Game::post_process_render, lines 294-303: the bind groups of the composite
\* pass.
post_process_render(game) ==
    [shadow |-> game.shadow_texture,
     screen_info |-> game.screen_info_binding,
     camera |-> game.camera_binding,
     sun_camera |-> game.sun_camera_binding]

\* The camera of Game::new, lines 90-99, and the Game it returns, lines 111-130.
new_camera(screen_size) ==
    [eye |-> [along |-> <<>>, up |-> 0],
     aspect |-> ratio(screen_size[1], screen_size[2]),
     fovy |-> 70, znear |-> 1, zfar |-> 100, ground |-> 0, sky |-> <<0, 0>>]

new_game(screen_size) ==
    [camera |-> new_camera(screen_size),
     camera_binding |-> new_camera(screen_size),
     camera_pos_binding |-> <<"player", new_camera(screen_size).eye>>,
     sun_camera_binding |-> new_camera(screen_size),
     screen_size |-> screen_size,
     screen_info_binding |-> screen_size,
     keys_down |-> <<>>,
     touch_positions |-> <<>>,
     moving_bc_finger |-> None,
     shadow_texture |-> create_depth_texture]

\* The window loop runs a frame as render, then post_process_render
\* (config() enables post processing): which of the two may be called after
\* the steps logged for the running frame.
may_render(steps) == IF steps = <<>> THEN TRUE ELSE steps[Len(steps)] = "composite"
may_post_process(steps) == IF steps = <<>> THEN FALSE ELSE steps[Len(steps)] = "main_pass"

\* ============================================================== state
VARIABLES
    args,          \* the constructor's arguments: decoded image, res, size,
                   \* chunks, height_multiplier, gen_normals
    phase,         \* "args" before the HeightMap is constructed, then "live"
    height_map,    \* the HeightMap (Game.height_map)
    chan,          \* the queue of the mpsc channel of make_data
    sender_alive,  \* the worker still owns the Sender
    wpc,           \* worker thread: "none", "loop", "sent", "done"
    w_cx, w_cy,    \* the worker's loop variables cx, cy
    model_data,    \* the worker's local model_data vector
    rpc,           \* render thread: "idle", or parked in recv() at
                   \* "shadow_recv", "main_recv", "call_recv"
    frame,         \* what the shadow pass and the main pass of the last
                   \* frame did with the terrain
    last_op,       \* the operation that took the last render-thread step
    query,         \* the last get_height_at call: None or Some([x, y, result])
    game,          \* the fields of Game other than height_map
    hist           \* what has been observed of the run: the steps of the
                   \* running frame, the bindings of its composite pass, where
                   \* each touch began, the last event of each key, the first
                   \* sun camera, the movement of the last frame

vars == <<args, phase, height_map, chan, sender_alive, wpc, w_cx, w_cy,
          model_data, rpc, frame, last_op, query, game, hist>>

workerVars == <<wpc, w_cx, w_cy, model_data>>

\* ------------------------------------------------------ input domains
Palette == {36, 37, 179}
HeightMultipliers == {10, 250}
WorldSizes == {1, 2}

\* The image of W x H pixels with value b inside the rectangle
\* [x0, x1] x [y0, y1] and a outside it.
RectImage(W, H, a, b, x0, x1, y0, y1) ==
    [width |-> W, height |-> H,
     pix |-> [c \in (0..(W - 1)) \X (0..(H - 1)) |->
                IF c[1] >= x0 /\ c[1] <= x1 /\ c[2] >= y0 /\ c[2] <= y1
                THEN b ELSE a]]

FlatImage(W, H, p) == RectImage(W, H, p, p, 0, 0, 0, 0)

\* Every two-level image with a rectangular feature, of every size.
Images ==
    {RectImage(d[1], d[2], v[1], v[2], r[1], r[2], r[3], r[4]) :
        d \in (1..MaxW) \X (1..MaxH),
        v \in Palette \X Palette,
        r \in {q \in (0..(MaxW - 1)) \X (0..(MaxW - 1)) \X (0..(MaxH - 1)) \X (0..(MaxH - 1)) :
                 q[1] <= q[2] /\ q[3] <= q[4]}}

\* The full-size images whose feature is anchored at the origin.
CornerImages ==
    {RectImage(MaxW, MaxH, v[1], v[2], 0, r[1], 0, r[2]) :
        v \in Palette \X Palette,
        r \in (0..(MaxW - 1)) \X (0..(MaxH - 1))}

ArgsOver(images) ==
    [image : images, res : 1..MaxRes, size : WorldSizes, chunks : 1..MaxChunks,
     height_multiplier : HeightMultipliers, gen_normals : BOOLEAN]

NoHeightMap ==
    [image |-> None, models |-> None, model_data_recv |-> None,
     width |-> 0, height |-> 0, size |-> 0, height_multiplier |-> 0]

NoFrame == [shadow |-> "none", main |-> "none"]

\* The key codes the game reads, and the touch ids of the model.
KeyCodes == {"KeyW", "KeyS", "KeyA", "KeyD", "Space", "ShiftLeft"}
TouchIds == 1..MaxTouches

NoHist ==
    [steps |-> <<>>,
     composite |-> None,
     touch_start |-> [id \in TouchIds |-> "up"],
     move_touch_turned |-> FALSE,
     last_key |-> [code \in KeyCodes |-> "none"],
     sun_first |-> None,
     move |-> None]

InitOver(argset) ==
    /\ args \in argset
    /\ phase = "args"
    /\ height_map = NoHeightMap
    /\ chan = <<>>
    /\ sender_alive = FALSE
    /\ wpc = "none"
    /\ w_cx = 0
    /\ w_cy = 0
    /\ model_data = <<>>
    /\ rpc = "idle"
    /\ frame = NoFrame
    /\ last_op = "none"
    /\ query = None
    /\ game = new_game(<<2, 2>>)
    /\ hist = NoHist

Init == InitOver(ArgsOver(CornerImages))

\* ---------------------------------------------------------- constructors
\* HeightMap::from_bytes(device, image_bytes, res, size, chunks,
\* height_multiplier, gen_normals), the decode having succeeded.
FromBytes ==
    /\ phase = "args"
    /\ phase' = "live"
    /\ height_map' = from_bytes(args)
    /\ last_op' = "from_bytes"
    /\ UNCHANGED <<game, hist, args, chan, sender_alive, workerVars, rpc, frame, query>>

\* HeightMap::make_data(...): creates the channel, spawns the worker and
\* returns the pending HeightMap.
MakeData ==
    /\ phase = "args"
    /\ phase' = "live"
    /\ height_map' = make_data(args)
    /\ chan' = <<>>
    /\ sender_alive' = TRUE
    /\ wpc' = "loop"
    /\ w_cx' = 0
    /\ w_cy' = 0
    /\ model_data' = <<>>
    /\ last_op' = "make_data"
    /\ UNCHANGED <<game, hist, args, rpc, frame, query>>

\* ------------------------------------------------------- worker thread
\* for cx in 0..chunks, for cy in 0..chunks: the loops have run to the end.
worker_loop_done(cx, chunks) == cx >= chunks

\* One iteration of the worker's cy loop: build chunk (cx, cy) and push it.
WorkerBuildChunk ==
    /\ wpc = "loop"
    /\ ~worker_loop_done(w_cx, args.chunks)
    /\ model_data' = Append(model_data, worker_build_chunk(args, w_cx, w_cy))
    /\ IF w_cy + 1 < args.chunks
       THEN w_cy' = w_cy + 1 /\ w_cx' = w_cx
       ELSE w_cy' = 0 /\ w_cx' = w_cx + 1
    /\ UNCHANGED <<game, hist, args, phase, height_map, chan, sender_alive, wpc, rpc, frame,
                   last_op, query>>

\* sender.send((model_data, image)).unwrap(), line 218: model_data and image
\* move into the channel.
WorkerSend ==
    /\ wpc = "loop"
    /\ worker_loop_done(w_cx, args.chunks)
    /\ chan' = Append(chan, <<model_data, args.image>>)
    /\ model_data' = <<>>
    /\ wpc' = "sent"
    /\ UNCHANGED <<game, hist, args, phase, height_map, sender_alive, w_cx, w_cy,
                   rpc, frame, last_op, query>>

\* The closure returns: the Sender is dropped, line 219.
WorkerExit ==
    /\ wpc = "sent"
    /\ wpc' = "done"
    /\ sender_alive' = FALSE
    /\ UNCHANGED <<game, hist, args, phase, height_map, chan, w_cx, w_cy, model_data, rpc,
                   frame, last_op, query>>

\* -------------------------------------------------------- render thread
\* The main pass of Game::render on the terrain, lines 219-238, entered with
\* terrain hm and channel queue ch: draw, or call create_models.
main_pass(hm, ch, alive) ==
    IF IsSome(hm.models)
    THEN [hm |-> hm, chan |-> ch, rpc |-> "idle", main |-> "draw"]
    ELSE IF would_block(hm, ch, alive)
         THEN [hm |-> hm, chan |-> ch, rpc |-> "main_recv", main |-> "wait"]
         ELSE [hm |-> create_models(hm, ch).hm, chan |-> create_models(hm, ch).chan,
               rpc |-> "idle", main |-> "poll"]

\* The steps of a frame, in the order the code runs them.
StepsToShadowPass == <<"movement", "sun_camera", "shadow_pass">>
StepsToStore == Append(StepsToShadowPass, "shadow_store")
StepsToMainPass == Append(StepsToStore, "main_pass")

\* Every coefficient of the eye is within MaxEye.
eye_in_bounds(eye) ==
    /\ Abs(eye.up) <= MaxEye
    /\ \A y \in DOMAIN eye.along :
          Abs(eye.along[y][1]) <= MaxEye /\ Abs(eye.along[y][2]) <= MaxEye

\* What a frame records as it starts: the camera it moves from and the first
\* sun camera computed.
frame_start(h, g, sun, delta) ==
    [h EXCEPT !.composite = None,
              !.move = Some([eye |-> g.camera.eye, ground |-> g.camera.ground,
                             keys_down |-> g.keys_down,
                             moving_bc_finger |-> g.moving_bc_finger, delta |-> delta]),
              !.sun_first = IF @ = None
                            THEN Some([sun |-> sun, camera |-> g.camera,
                                       screen_size |-> g.screen_size])
                            ELSE @]

\* Game::render with frame time delta, one frame: the movement keys, then
\* render_shadows (draw the terrain into the new shadow target, or call
\* create_models), then the main pass.  A create_models call whose recv()
\* cannot return yet parks the frame.
RenderOver(deltas) ==
    \E delta \in deltas :
    /\ phase = "live"
    /\ rpc = "idle"
    /\ may_render(hist.steps)
    /\ eye_in_bounds(movement(game, delta).camera.eye)
    /\ last_op' = "render"
    /\ LET g1 == movement(earlier_frame(game), delta)
           g2 == render_shadows_begin(g1, height_map)
           h1 == frame_start(hist, game, g2.sun_camera_binding, delta)
       IN  IF IsSome(height_map.models)
           THEN /\ frame' = [shadow |-> "draw", main |-> "draw"]
                /\ game' = main_pass_draw(render_shadows_end(render_shadows_draw(g2), TRUE))
                /\ hist' = [h1 EXCEPT !.steps = StepsToMainPass]
                /\ UNCHANGED <<height_map, chan, rpc>>
           ELSE IF would_block(height_map, chan, sender_alive)
                THEN /\ rpc' = "shadow_recv"
                     /\ frame' = [shadow |-> "wait", main |-> "none"]
                     /\ game' = g2
                     /\ hist' = [h1 EXCEPT !.steps = StepsToShadowPass]
                     /\ UNCHANGED <<height_map, chan>>
                ELSE LET s == create_models(height_map, chan)
                         m == main_pass(s.hm, s.chan, sender_alive)
                         g3 == render_shadows_end(g2, FALSE)
                     IN  /\ height_map' = m.hm
                         /\ chan' = m.chan
                         /\ rpc' = m.rpc
                         /\ frame' = [shadow |-> "poll", main |-> m.main]
                         /\ game' = IF m.main = "draw" THEN main_pass_draw(g3) ELSE g3
                         /\ hist' = [h1 EXCEPT !.steps = IF m.rpc = "idle"
                                                         THEN StepsToMainPass
                                                         ELSE StepsToStore]
    /\ UNCHANGED <<args, phase, sender_alive, workerVars, query>>

FrameDeltas == {1, 2}

Render == RenderOver({1})

\* recv() returns in a parked frame: create_models finishes and the frame
\* runs on from there.
RenderWake ==
    /\ rpc \in {"shadow_recv", "main_recv"}
    /\ ~would_block(height_map, chan, sender_alive)
    /\ last_op' = "render"
    /\ IF rpc = "shadow_recv"
       THEN LET s == create_models(height_map, chan)
                m == main_pass(s.hm, s.chan, sender_alive)
                g3 == render_shadows_end(game, FALSE)
            IN  /\ height_map' = m.hm
                /\ chan' = m.chan
                /\ rpc' = m.rpc
                /\ frame' = [shadow |-> "poll", main |-> m.main]
                /\ game' = IF m.main = "draw" THEN main_pass_draw(g3) ELSE g3
                /\ hist' = [hist EXCEPT !.steps = IF m.rpc = "idle"
                                                  THEN StepsToMainPass
                                                  ELSE StepsToStore]
       ELSE /\ height_map' = create_models(height_map, chan).hm
            /\ chan' = create_models(height_map, chan).chan
            /\ rpc' = "idle"
            /\ frame' = [frame EXCEPT !.main = "poll"]
            /\ hist' = [hist EXCEPT !.steps = StepsToMainPass]
            /\ UNCHANGED game
    /\ UNCHANGED <<args, phase, sender_alive, workerVars, query>>

\* Game::post_process_render: the composite pass of the frame.
PostProcessRender ==
    /\ phase = "live"
    /\ rpc = "idle"
    /\ may_post_process(hist.steps)
    /\ hist' = [hist EXCEPT !.steps = Append(@, "composite"),
                            !.composite = Some(post_process_render(game))]
    /\ last_op' = "post_process_render"
    /\ UNCHANGED <<args, phase, height_map, chan, sender_alive, workerVars, rpc,
                   frame, query, game>>

\* ------------------------------------------------------- window events
\* Events reach the game on the render thread, between frames.
\* Game::mouse_motion with a pointer delta of the given set.
MouseMotionOver(deltas) ==
    \E delta \in deltas :
    /\ phase = "live"
    /\ rpc = "idle"
    /\ Abs(mouse_motion(game, delta).camera.ground) <= MaxYaw
    /\ game' = mouse_motion(game, delta)
    /\ last_op' = "mouse_motion"
    /\ UNCHANGED <<args, phase, height_map, chan, sender_alive, workerVars, rpc,
                   frame, query, hist>>

\* Game::touch with a touch of the given ids and locations.  A touch id
\* starts when it is up, and moves, ends or is cancelled when it is down.
TouchOver(ids, locations) ==
    \E id \in ids, ph \in {"Started", "Moved", "Ended", "Cancelled"},
       location \in locations :
    LET t == [phase |-> ph, id |-> id, location |-> location]
        g == touch(game, t)
        began == hist.touch_start[id]
    IN  /\ phase = "live"
        /\ rpc = "idle"
        /\ (ph = "Started") <=> (began = "up")
        /\ Abs(g.camera.ground) <= MaxYaw
        /\ game' = g
        /\ hist' = [hist EXCEPT
              !.touch_start[id] =
                  IF ph = "Started"
                  THEN (IF 2 * location[1] > game.screen_size[1] THEN "move" ELSE "look")
                  ELSE IF ph = "Moved" THEN @ ELSE "up",
              !.move_touch_turned =
                  @ \/ (began = "move" /\ (g.camera.ground # game.camera.ground
                                           \/ g.camera.sky # game.camera.sky))]
        /\ last_op' = "touch"
        /\ UNCHANGED <<args, phase, height_map, chan, sender_alive, workerVars,
                       rpc, frame, query>>

\* Game::input_event with a press or release of one of the given physical keys.
InputEventOver(keys) ==
    \E physical_key \in keys, pressed \in BOOLEAN :
    /\ phase = "live"
    /\ rpc = "idle"
    /\ game' = input_event(game, [physical_key |-> physical_key, pressed |-> pressed])
    /\ hist' = IF physical_key[1] = "Code"
               THEN [hist EXCEPT !.last_key[physical_key[2]] =
                                     IF pressed THEN "pressed" ELSE "released"]
               ELSE hist
    /\ last_op' = "input_event"
    /\ UNCHANGED <<args, phase, height_map, chan, sender_alive, workerVars, rpc,
                   frame, query>>

\* WindowHandler::resize with one of the given sizes.
ResizeOver(sizes) ==
    \E new_size \in sizes :
    /\ phase = "live"
    /\ rpc = "idle"
    /\ game' = resize(game, new_size)
    /\ last_op' = "resize"
    /\ UNCHANGED <<args, phase, height_map, chan, sender_alive, workerVars, rpc,
                   frame, query, hist>>

\* HeightMap::create_models called by the owner of the terrain between frames.
CreateModels ==
    /\ phase = "live"
    /\ rpc = "idle"
    /\ last_op' = "create_models"
    /\ IF would_block(height_map, chan, sender_alive)
       THEN /\ rpc' = "call_recv"
            /\ UNCHANGED <<height_map, chan>>
       ELSE /\ height_map' = create_models(height_map, chan).hm
            /\ chan' = create_models(height_map, chan).chan
            /\ UNCHANGED rpc
    /\ UNCHANGED <<game, hist, args, phase, sender_alive, workerVars, frame, query>>

\* recv() returns in a parked create_models call.
CreateModelsWake ==
    /\ rpc = "call_recv"
    /\ ~would_block(height_map, chan, sender_alive)
    /\ height_map' = create_models(height_map, chan).hm
    /\ chan' = create_models(height_map, chan).chan
    /\ rpc' = "idle"
    /\ last_op' = "create_models"
    /\ UNCHANGED <<game, hist, args, phase, sender_alive, workerVars, frame, query>>

Next ==
    \/ FromBytes
    \/ MakeData
    \/ WorkerBuildChunk
    \/ WorkerSend
    \/ WorkerExit
    \/ Render
    \/ RenderWake
    \/ PostProcessRender
    \/ CreateModels
    \/ CreateModelsWake

Spec == Init /\ [][Next]_vars

\* ------------------------------------------------- the height query
\* HeightMap::get_height_at on the live terrain, at the world coordinates
\* (kx*size/QueryDen, ky*size/QueryDen).  On a loaded image narrower or lower
\* than 2 pixels f32::clamp panics (min > max): the call does not return.
GetHeightAt ==
    /\ phase = "live"
    /\ IsSome(height_map.image) => height_map.width >= 2 /\ height_map.height >= 2
    /\ \E kx \in (-1)..(height_map.width * QueryDen),
          ky \in (-1)..(height_map.height * QueryDen) :
          query' = Some([x |-> kx * height_map.size, y |-> ky * height_map.size,
                         result |-> get_height_at(height_map, kx * height_map.size,
                                                  ky * height_map.size)])
    /\ last_op' = "get_height_at"
    /\ UNCHANGED <<game, hist, args, phase, height_map, chan, sender_alive, workerVars, rpc, frame>>

HeightArgs ==
    [image : CornerImages, res : {1}, size : WorldSizes, chunks : {1},
     height_multiplier : HeightMultipliers, gen_normals : {FALSE}]

InitHeight == InitOver(HeightArgs)

NextHeight ==
    \/ FromBytes
    \/ GetHeightAt

SpecHeight == InitHeight /\ [][NextHeight]_vars

\* ------------------------------------------------ the build on its own
InitBuild == InitOver(ArgsOver(Images))

NextBuild == FromBytes

SpecBuild == InitBuild /\ [][NextBuild]_vars

\* --------------------------------------------- the build of a flat image
FlatPixels == {0, 36, 37, 128, 178, 179, 255}

FlatArgs ==
    [image : {FlatImage(d[1], d[2], p) : d \in (1..MaxFlat) \X (1..MaxFlat),
                                         p \in FlatPixels},
     res : {1}, size : WorldSizes, chunks : {1},
     height_multiplier : HeightMultipliers, gen_normals : BOOLEAN]

InitFlat == InitOver(FlatArgs)

NextFlat == FromBytes

SpecFlat == InitFlat /\ [][NextFlat]_vars

\* ------------------------------------------------ the game's event handlers
\* Game::new builds the terrain with from_bytes(.., 2, 1.0, 5, 250.0, true); the
\* event handlers do not read it.
GameArgs ==
    [image : {FlatImage(2, 2, 36)}, res : {2}, size : {1}, chunks : {1},
     height_multiplier : {250}, gen_normals : {TRUE}]

InitGame == InitOver(GameArgs)

\* Every physical key: the codes the game reads and a key without a code.
PhysicalKeys == {<<"Code", code>> : code \in KeyCodes} \cup {<<"Unidentified">>}

NextKeys ==
    \/ FromBytes
    \/ InputEventOver(PhysicalKeys)

SpecKeys == InitGame /\ [][NextKeys]_vars

\* Pointer deltas in pixels: small ones and ones beyond the whole pitch range.
MouseDeltas == {-1, 1} \X {-100000, -300, 300, 2000}
TouchLocations == {1, 3} \X {0, 2000}
ScreenSizes == {<<2, 2>>, <<6, 2>>}

NextLook ==
    \/ FromBytes
    \/ MouseMotionOver(MouseDeltas)
    \/ TouchOver(TouchIds, TouchLocations)
    \/ ResizeOver(ScreenSizes)

SpecLook == InitGame /\ [][NextLook]_vars

\* ---------------------------------------------------- frames that move
\* Forward and the two strafe keys, pressed and released between frames of
\* either frame time; the pointer changes the pitch only.
MoveKeys == {<<"Code", "KeyW">>, <<"Code", "KeyA">>, <<"Code", "KeyD">>}
PitchDeltas == {<<0, 2000>>, <<0, -2000>>}

NextMove ==
    \/ FromBytes
    \/ InputEventOver(MoveKeys)
    \/ MouseMotionOver(PitchDeltas)
    \/ RenderOver(FrameDeltas)
    \/ PostProcessRender

SpecMove == InitGame /\ [][NextMove]_vars

\* ------------------------------------------- frames between window events
\* Terrains narrow and wide, low and high; one key, one touch id at one
\* place, pitch drags and resizes arrive between the frames.
SunArgs ==
    [image : {FlatImage(d[1], d[2], 36) : d \in {1, 2, MaxW} \X {1, MaxH}},
     res : {1}, size : {1}, chunks : {1},
     height_multiplier : {10}, gen_normals : {FALSE}]

InitSun == InitOver(SunArgs)

NextSun ==
    \/ FromBytes
    \/ RenderOver({1})
    \/ PostProcessRender
    \/ InputEventOver({<<"Code", "KeyW">>})
    \/ MouseMotionOver(PitchDeltas)
    \/ TouchOver({1}, {<<3, 0>>})
    \/ ResizeOver(ScreenSizes)

SpecSun == InitSun /\ [][NextSun]_vars

\* --------------------------------------------- frames of both constructors
\* Small terrains built at once or in the background; W is pressed and
\* released between frames.
FrameArgs ==
    [image : {FlatImage(d[1], d[2], 36) : d \in (1..2) \X (1..2)},
     res : {1}, size : {1}, chunks : 1..MaxChunks,
     height_multiplier : {10}, gen_normals : {FALSE}]

InitFrame == InitOver(FrameArgs)

NextFrame ==
    \/ FromBytes
    \/ MakeData
    \/ WorkerBuildChunk
    \/ WorkerSend
    \/ WorkerExit
    \/ Render
    \/ RenderWake
    \/ PostProcessRender
    \/ InputEventOver({<<"Code", "KeyW">>})

SpecFrame == InitFrame /\ [][NextFrame]_vars

\* The worker thread is scheduled until it returns, and the window loop keeps
\* running frames.
NextLive ==
    \/ FromBytes
    \/ MakeData
    \/ WorkerBuildChunk
    \/ WorkerSend
    \/ WorkerExit
    \/ Render
    \/ RenderWake
    \/ PostProcessRender

SpecLive ==
    /\ InitFrame
    /\ [][NextLive]_vars
    /\ WF_vars(WorkerBuildChunk)
    /\ WF_vars(WorkerSend)
    /\ WF_vars(WorkerExit)
    /\ WF_vars(Render)
    /\ WF_vars(RenderWake)
    /\ WF_vars(PostProcessRender)

\* ================================================================ claims
Live == phase = "live"
Pending == height_map.image = None /\ height_map.models = None
Ready == IsSome(height_map.image) /\ IsSome(height_map.models)
Background == IsSome(height_map.model_data_recv)

\* The chunks of the terrain: <<(cx, cy), model>> in build order.
Chunks == Unwrap(height_map.models)
Triangles(m) == 0..((Len(m.indices) \div 3) - 1)
Corners(m, i) == {m.indices[i * 3 + 1] + 1, m.indices[i * 3 + 2] + 1,
                  m.indices[i * 3 + 3] + 1}

\* The up-component of the unit normal of triangle i of mesh m, taken from the
\* positions of its corners, is below 0.5.
Steep(m, i) ==
    LET p1 == m.vertices[m.indices[i * 3 + 1] + 1].position
        p2 == m.vertices[m.indices[i * 3 + 2] + 1].position
        p3 == m.vertices[m.indices[i * 3 + 3] + 1].position
        n == normalize(cross(sub(p2, p1), sub(p3, p1)))
    IN  n[2] < 0 \/ 4 * n[2] * n[2] < n[1] * n[1] + n[2] * n[2] + n[3] * n[3]

\* height > 0.7 x height_multiplier, height <= 0.14392 x height_multiplier,
\* for a height h in units of 1/255.
AboveSnowLine(h) == 10 * h > 1785 * args.height_multiplier
\* (0.14392 x 255 = 36.6996 separates the integer pixel values as 36.70 does.)
AtOrBelowRockLine(h) == 100 * h <= 3670 * args.height_multiplier

\* C1: polling a pending terrain from the shadow pass or the main pass of
\* Game::render is a non-blocking receive: a frame that polls while the worker
\* has not sent its result completes without waiting for the worker, so no
\* frame is ever parked in a receive.
C1_PollNeverWaits == rpc \notin {"shadow_recv", "main_recv"}

\* C2: the mesh map a background build delivers is identical, chunk by chunk
\* (coordinates, order, vertices, indices), to the mesh map from_bytes builds
\* from the same arguments.
C2_BackgroundEqualsSync ==
    (Live /\ Background /\ IsSome(height_map.models)) =>
        height_map.models = from_bytes(args).models

C2_Witness ==
    /\ Live /\ Background /\ IsSome(height_map.models)
    /\ args.chunks >= 2 /\ args.gen_normals
    /\ \E k \in 1..Len(Chunks) :
          /\ \E j \in 1..Len(Chunks[k][2].vertices) :
                Chunks[k][2].vertices[j].color = dirt_color
          /\ \E j \in 1..Len(Chunks[k][2].vertices) :
                Chunks[k][2].vertices[j].color = snow_color

\* C5: in every state the terrain is either pending, with image and mesh map
\* both absent (get_height_at returns 0.0, render draws no chunk), or ready,
\* with both present and the mesh map holding every chunk of the build.
C5_PendingOrReady ==
    Live =>
        \/ /\ Pending
           /\ render(height_map) = <<>>
           /\ \A x \in (-1)..(height_map.width * height_map.size * QueryDen),
                 y \in (-1)..(height_map.height * height_map.size * QueryDen) :
                 get_height_at(height_map, x, y) = <<0, 1>>
        \/ /\ Ready
           /\ render(height_map) =
                 [k \in 1..(args.chunks * args.chunks) |->
                     <<(k - 1) \div args.chunks, (k - 1) % args.chunks>>]

C5_Witness ==
    /\ Live /\ Background /\ Ready
    /\ args.chunks >= 2
    /\ last_op = "create_models"
    /\ Len(Chunks) = args.chunks * args.chunks

\* C6: the hand-off happens at most once: once the terrain is ready it never
\* goes back to pending and no later step, create_models calls included,
\* changes the image or the mesh map.
C6_HandOffOnce ==
    [][(Live /\ IsSome(height_map.models)) =>
          /\ height_map'.models = height_map.models
          /\ height_map'.image = height_map.image]_vars

\* A frame drew the ready terrain of a background build, and create_models was
\* called after it.
C6_Witness ==
    /\ Live /\ Background /\ Ready
    /\ frame = [shadow |-> "draw", main |-> "draw"]
    /\ last_op = "create_models"

\* C7: every vertex whose build-time height is above 0.7 x height_multiplier
\* has the snow color in the finished chunk, with gen_normals on or off and
\* whatever the slopes of its triangles.
C7_SnowStaysSnow ==
    (Live /\ IsSome(height_map.models)) =>
        \A k \in 1..Len(Chunks) : \A j \in 1..Len(Chunks[k][2].vertices) :
            AboveSnowLine(Chunks[k][2].vertices[j].position[2]) =>
                Chunks[k][2].vertices[j].color = snow_color

\* A snow vertex that is a corner of a steep triangle, built with gen_normals.
C7_Witness ==
    /\ Live /\ IsSome(height_map.models) /\ args.gen_normals
    /\ \E k \in 1..Len(Chunks) : \E i \in Triangles(Chunks[k][2]) :
          /\ Steep(Chunks[k][2], i)
          /\ \E j \in Corners(Chunks[k][2], i) :
                AboveSnowLine(Chunks[k][2].vertices[j].position[2])

\* C8: every vertex whose build-time height is at most 0.14392 x
\* height_multiplier has the rock color, except that it has the dirt color
\* exactly when gen_normals is on and a triangle of its chunk that contains it
\* has a normal whose up-component is below 0.5.
C8_RockOrDirt ==
    (Live /\ IsSome(height_map.models)) =>
        \A k \in 1..Len(Chunks) : \A j \in 1..Len(Chunks[k][2].vertices) :
            AtOrBelowRockLine(Chunks[k][2].vertices[j].position[2]) =>
                Chunks[k][2].vertices[j].color =
                    IF /\ args.gen_normals
                       /\ \E i \in Triangles(Chunks[k][2]) :
                             j \in Corners(Chunks[k][2], i) /\ Steep(Chunks[k][2], i)
                    THEN dirt_color
                    ELSE rock_color

\* With gen_normals on, one chunk holds a rock-height vertex turned dirt and a
\* rock-height vertex, corner of a triangle, that stayed rock.
C8_Witness ==
    /\ Live /\ IsSome(height_map.models) /\ args.gen_normals
    /\ \E k \in 1..Len(Chunks) :
          /\ \E j \in 1..Len(Chunks[k][2].vertices) :
                /\ AtOrBelowRockLine(Chunks[k][2].vertices[j].position[2])
                /\ Chunks[k][2].vertices[j].color = dirt_color
          /\ \E j \in 1..Len(Chunks[k][2].vertices) :
                /\ AtOrBelowRockLine(Chunks[k][2].vertices[j].position[2])
                /\ Chunks[k][2].vertices[j].color = rock_color
                /\ \E i \in Triangles(Chunks[k][2]) : j \in Corners(Chunks[k][2], i)

\* The sampled grid and the layout of chunk coordinate c along an axis, as
\* section 4.2 of the specification gives them.
GridW == args.image.width \div args.res
GridH == args.image.height \div args.res
Span(length, c) == (length \div args.chunks) + (IF c = args.chunks - 1 THEN 0 ELSE 1)
ChunkAt(cx, cy) == Chunks[cx * args.chunks + cy + 1][2]
WellFormed(cx, cy) ==
    /\ Chunks[cx * args.chunks + cy + 1][1] = <<cx, cy>>
    /\ Len(ChunkAt(cx, cy).vertices) = Span(GridW, cx) * Span(GridH, cy)
\* The positions of vertex column x / vertex row y of a chunk of rows rows.
ColumnAt(m, rows, x) == [y \in 1..rows |-> m.vertices[x * rows + y].position]
RowAt(m, cols, rows, y) == [x \in 1..cols |-> m.vertices[(x - 1) * rows + y + 1].position]

\* C9: for every pair of chunks adjacent along x (along y), the extra last
\* column (row) of the lower chunk and the first column (row) of the next
\* chunk, when it has one, hold identical positions vertex for vertex along the
\* whole boundary.
C9_SeamsShared ==
    (Live /\ IsSome(height_map.models)) =>
        /\ Len(Chunks) = args.chunks * args.chunks
        /\ \A cx \in 0..(args.chunks - 1), cy \in 0..(args.chunks - 1) :
              WellFormed(cx, cy)
        /\ \A cx \in 0..(args.chunks - 2), cy \in 0..(args.chunks - 1) :
              Span(GridW, cx + 1) >= 1 =>
                 ColumnAt(ChunkAt(cx, cy), Span(GridH, cy), Span(GridW, cx) - 1)
                    = ColumnAt(ChunkAt(cx + 1, cy), Span(GridH, cy), 0)
        /\ \A cx \in 0..(args.chunks - 1), cy \in 0..(args.chunks - 2) :
              Span(GridH, cy + 1) >= 1 =>
                 RowAt(ChunkAt(cx, cy), Span(GridW, cx), Span(GridH, cy),
                       Span(GridH, cy) - 1)
                    = RowAt(ChunkAt(cx, cy + 1), Span(GridW, cx), Span(GridH, cy + 1), 0)

\* Two chunks along each axis; the column that chunks (0, 0) and (1, 0) share
\* holds two different heights.
C9_Witness ==
    /\ Live /\ IsSome(height_map.models)
    /\ args.chunks = 2 /\ GridW >= 2 /\ GridH >= 2
    /\ Len(ChunkAt(1, 0).vertices) >= 2
    /\ ChunkAt(1, 0).vertices[1].position[2] # ChunkAt(1, 0).vertices[2].position[2]
    /\ ChunkAt(1, 0).vertices[1].position[1] = ChunkAt(1, 0).vertices[2].position[1]

\* C10: a flat W x H image of pixel value p, built with res 1 and one chunk,
\* gives W*H vertices, each of height height_multiplier*p/255 and of the color
\* its height classifies to (rock, grass or snow), never dirt.
C10_FlatMesh ==
    (Live /\ IsSome(height_map.models)) =>
        LET p == args.image.pix[<<0, 0>>]
            h == p * args.height_multiplier
        IN  /\ Len(Chunks) = 1
            /\ Len(Chunks[1][2].vertices) = args.image.width * args.image.height
            /\ \A j \in 1..Len(Chunks[1][2].vertices) :
                  /\ Chunks[1][2].vertices[j].position[2] = h
                  /\ Chunks[1][2].vertices[j].color =
                        IF AtOrBelowRockLine(h) THEN rock_color
                        ELSE IF AboveSnowLine(h) THEN snow_color
                        ELSE grass_color

\* The 4 x 4 map of pixel value 128 with height_multiplier 10: 16 grass vertices.
C10_Witness ==
    /\ Live /\ IsSome(height_map.models)
    /\ args.image = FlatImage(4, 4, 128)
    /\ args.height_multiplier = 10 /\ args.gen_normals
    /\ Len(Chunks[1][2].vertices) = 16
    /\ \A j \in 1..16 : Chunks[1][2].vertices[j].color = grass_color
    /\ \A j \in 1..16 : Chunks[1][2].vertices[j].position[2] = 1280

\* C3: get_height_at(px*size, py*size) is the source pixel value at (px, py)
\* divided by 255 times height_multiplier for every pixel of the loaded image,
\* the last row and the last column included.
C3_GridPointsExact ==
    (IsSome(query) /\ IsSome(height_map.image)) =>
        LET q == Unwrap(query)
            d == QueryDen * height_map.size
        IN  (/\ q.x >= 0 /\ q.x % d = 0 /\ q.x \div d <= height_map.width - 1
             /\ q.y >= 0 /\ q.y % d = 0 /\ q.y \div d <= height_map.height - 1) =>
                q.result[1] =
                    get_pixel(Unwrap(height_map.image), q.x \div d, q.y \div d)
                        * height_map.height_multiplier * q.result[2]

GridPoint(px, py) == <<Scale * (px * args.res) * args.size,
                       Scale * (py * args.res) * args.size>>

\* C17: the build gives chunks x chunks chunks with pairwise distinct
\* coordinates, and every sample point of the effective grid
\* (image_width/res x image_height/res) is a vertex of at least one chunk,
\* also when the grid is not a multiple of the chunk count.
C17_ChunksCoverGrid ==
    (Live /\ IsSome(height_map.models)) =>
        /\ Len(Chunks) = args.chunks * args.chunks
        /\ \A j \in 1..Len(Chunks), k \in 1..Len(Chunks) :
              j # k => Chunks[j][1] # Chunks[k][1]
        /\ \A px \in 0..(GridW - 1), py \in 0..(GridH - 1) :
              \E k \in 1..Len(Chunks) :
                 \E j \in 1..Len(Chunks[k][2].vertices) :
                    LET pos == Chunks[k][2].vertices[j].position
                    IN  <<pos[1], pos[3]>> = GridPoint(px, py)

\* The up-component of cross(v2-v1, v3-v1) for triangle t of mesh m.
UpComponent(m, t) ==
    LET v1 == m.vertices[m.indices[t * 3 + 1] + 1].position
        v2 == m.vertices[m.indices[t * 3 + 2] + 1].position
        v3 == m.vertices[m.indices[t * 3 + 3] + 1].position
    IN  cross(sub(v2, v1), sub(v3, v1))[2]

\* C18: a chunk of c columns and r rows of vertices has 6*(c-1)*(r-1) indices,
\* each below c*r; the vertex at index x*r + y is the one at local (x, y); the
\* two triangles of cell (x, y) are (x,y),(x,y+1),(x+1,y+1) and
\* (x,y),(x+1,y+1),(x+1,y), and the up-component of cross(v2-v1, v3-v1) is
\* positive for both. A chunk without vertices has no indices.
C18_IndexBuffer ==
    (Live /\ IsSome(height_map.models)) =>
        \A cx \in 0..(args.chunks - 1), cy \in 0..(args.chunks - 1) :
            LET m == ChunkAt(cx, cy)
                c == Span(GridW, cx)
                r == Span(GridH, cy)
                idx(x, y) == x * r + y
            IN  IF c >= 1 /\ r >= 1
                THEN /\ Len(m.vertices) = c * r
                     /\ Len(m.indices) = 6 * (c - 1) * (r - 1)
                     /\ \A k \in 1..Len(m.indices) : m.indices[k] \in 0..(c * r - 1)
                     /\ \A x \in 0..(c - 1), y \in 0..(r - 1) :
                           LET pos == m.vertices[idx(x, y) + 1].position
                           IN  <<pos[1], pos[3]>> =
                                  GridPoint(x + (GridW \div args.chunks) * cx,
                                            y + (GridH \div args.chunks) * cy)
                     /\ \A x \in 0..(c - 2), y \in 0..(r - 2) :
                           LET b == 6 * (x * (r - 1) + y)
                           IN  /\ <<m.indices[b + 1], m.indices[b + 2], m.indices[b + 3]>>
                                     = <<idx(x, y), idx(x, y + 1), idx(x + 1, y + 1)>>
                               /\ <<m.indices[b + 4], m.indices[b + 5], m.indices[b + 6]>>
                                     = <<idx(x, y), idx(x + 1, y + 1), idx(x + 1, y)>>
                     /\ \A t \in Triangles(m) : UpComponent(m, t) > 0
                ELSE m.vertices = <<>> /\ m.indices = <<>>

\* A chunk of at least 2 x 3 vertices whose cells hold different heights,
\* sampled with stride 2 and world scale 2.
C18_Witness ==
    /\ Live /\ IsSome(height_map.models)
    /\ args.res = 2 /\ args.size = 2 /\ args.chunks = 1
    /\ GridW >= 2 /\ GridH >= 2
    /\ Len(ChunkAt(0, 0).indices) >= 6
    /\ \E j \in 1..Len(ChunkAt(0, 0).vertices), k \in 1..Len(ChunkAt(0, 0).vertices) :
          ChunkAt(0, 0).vertices[j].position[2] # ChunkAt(0, 0).vertices[k].position[2]

\* C11: after any sequence of mouse drags and touch events, with deltas of any
\* magnitude and sign, the pitch of the player camera lies within
\* [-0.499 PI, 0.499 PI].
C11_PitchWithinLimits ==
    /\ ~sky_greater(game.camera.sky, <<1, 0>>)
    /\ ~sky_greater(<<-1, 0>>, game.camera.sky)

\* A touch drag has run the pitch into the upper limit, from the lower one.
C11_Witness ==
    /\ last_op = "touch"
    /\ game.camera.sky = <<1, 0>>
    /\ \E id \in DOMAIN game.touch_positions : game.touch_positions[id][2] = 0

\* C12: the move-forward latch is set while a touch that started in the move
\* half (x greater than half the screen width) is down, and clear when none
\* is, under every interleaving of the events of several touch ids; and no
\* touch that started in the move half has changed yaw or pitch.
C12_MoveLatch ==
    /\ IsSome(game.moving_bc_finger) <=>
          (\E id \in TouchIds : hist.touch_start[id] = "move")
    /\ ~hist.move_touch_turned

\* C19: keys_down holds each key code at most once, and holds a code exactly
\* when the last event of that key was a press (so an event of one key leaves
\* the membership of every other key as it was).
C19_KeysDown ==
    /\ \A i \in 1..Len(game.keys_down), j \in 1..Len(game.keys_down) :
          i # j => game.keys_down[i] # game.keys_down[j]
    /\ \A code \in KeyCodes :
          contains(game.keys_down, code) <=> (hist.last_key[code] = "pressed")
    /\ \A i \in 1..Len(game.keys_down) : game.keys_down[i] \in KeyCodes

\* Two keys are held in press order, a third was released, a fourth never
\* touched.
C19_Witness ==
    /\ game.keys_down = <<"KeyD", "KeyW">>
    /\ hist.last_key["KeyA"] = "released"
    /\ hist.last_key["Space"] = "none"

\* The square of the distance between the eyes e1 and e0, which differ by
\* movement at the one yaw: the walking and the right vector are unit vectors,
\* perpendicular to each other and to unit_y.
Travel2(e1, e0, yaw) ==
    LET a1 == IF yaw \in DOMAIN e1.along THEN e1.along[yaw] ELSE <<0, 0>>
        a0 == IF yaw \in DOMAIN e0.along THEN e0.along[yaw] ELSE <<0, 0>>
    IN  (a1[1] - a0[1]) * (a1[1] - a0[1]) + (a1[2] - a0[2]) * (a1[2] - a0[2])
          + (e1.up - e0.up) * (e1.up - e0.up)

\* The game as the last frame found it, with the keys `keys` held instead.
FrameStartWith(keys) ==
    [game EXCEPT !.camera.eye = Unwrap(hist.move).eye,
                 !.camera.ground = Unwrap(hist.move).ground,
                 !.keys_down = keys,
                 !.moving_bc_finger = None]

\* C15: a frame run with W and one strafe key (A or D) held moves the eye
\* strictly further than the same frame (same delta, same starting camera)
\* run with W alone or with the strafe key alone.
C15_DiagonalFaster ==
    IsSome(hist.move) =>
        LET mv == Unwrap(hist.move)
            held == {mv.keys_down[i] : i \in 1..Len(mv.keys_down)}
            alone(key) == Travel2(movement(FrameStartWith(<<key>>), mv.delta).camera.eye,
                                  mv.eye, mv.ground)
            both == Travel2(game.camera.eye, mv.eye, mv.ground)
        IN  \A strafe \in {"KeyA", "KeyD"} :
               (held = {"KeyW", strafe} /\ mv.moving_bc_finger = None) =>
                   both > alone("KeyW") /\ both > alone(strafe)

\* A frame of delta 2 with W and D held has moved the eye 4 forward and 4 to
\* the right.
C15_Witness ==
    /\ IsSome(hist.move)
    /\ Unwrap(hist.move).keys_down = <<"KeyW", "KeyD">>
    /\ Unwrap(hist.move).delta = 2
    /\ Unwrap(hist.move).eye = [along |-> <<>>, up |-> 0]
    /\ game.camera.eye.up = 0
    /\ 0 \in DOMAIN game.camera.eye.along
    /\ game.camera.eye.along[0] = <<4, 4>>

\* eye, yaw and pitch of a sun camera.
SunPlace(cam) == <<cam.eye, cam.ground, cam.sky>>

\* C14: eye, yaw and pitch of the sun camera are a function of the terrain's
\* width and height alone: every sun camera computed equals the first one
\* computed on this terrain, whatever key, mouse, touch and resize events and
\* frames came in between, and equals the one a newly built game of any
\* screen size computes from the same width and height.
C14_SunCameraOfTerrainOnly ==
    IsSome(hist.sun_first) =>
        /\ SunPlace(game.sun_camera_binding) = SunPlace(Unwrap(hist.sun_first).sun)
        /\ \A screen_size \in ScreenSizes :
              SunPlace(game.sun_camera_binding) =
                 SunPlace(sun_camera(new_game(screen_size),
                                     [width |-> height_map.width,
                                      height |-> height_map.height]))

\* A second sun camera has been computed on a terrain wider than high, after
\* a resize, a pitch drag and a frame of walking: its aspect differs from the
\* first one's.
C14_Witness ==
    /\ IsSome(hist.sun_first)
    /\ height_map.width > height_map.height
    /\ game.sun_camera_binding.aspect # Unwrap(hist.sun_first).sun.aspect
    /\ game.camera.sky # Unwrap(hist.sun_first).camera.sky
    /\ game.camera.eye # Unwrap(hist.sun_first).camera.eye
    /\ game.keys_down = <<"KeyW">>
    /\ hist.touch_start[1] # "up"

\* The steps of a whole frame.
FrameOrder == Append(StepsToMainPass, "composite")

\* C13: the steps of every frame run in the order movement, sun camera, shadow
\* pass into a new depth target, store of that target in the shadow-texture
\* slot, main pass, composite pass; the main pass binds the camera the
\* movement left, and the shadow texture the composite pass binds is the
\* target of this frame's shadow pass, never one of an earlier frame.
C13_FrameOrder ==
    /\ Len(hist.steps) <= Len(FrameOrder)
    /\ \A i \in 1..Len(hist.steps) : hist.steps[i] = FrameOrder[i]
    /\ (hist.steps # <<>> /\ frame.main = "draw" /\ Len(hist.steps) >= Len(StepsToMainPass)) =>
          game.camera_binding.eye = game.camera.eye
    /\ IsSome(hist.composite) =>
          /\ Unwrap(hist.composite).shadow.pass = "shadow"
          /\ Unwrap(hist.composite).shadow.frame = "this"
          /\ SunPlace(Unwrap(hist.composite).sun_camera)
                = SunPlace(sun_camera(game, height_map))

\* The composite pass of a frame that walked has run on a terrain built in
\* the background, after the frame that installed it.
C13_Witness ==
    /\ Background /\ Ready
    /\ IsSome(hist.composite)
    /\ Unwrap(hist.composite).shadow.terrain
    /\ frame = [shadow |-> "draw", main |-> "draw"]
    /\ IsSome(hist.move)
    /\ Unwrap(hist.move).eye # [along |-> <<>>, up |-> 0]
    /\ game.camera.eye # Unwrap(hist.move).eye
    /\ Unwrap(hist.composite).camera.eye = game.camera.eye

====
